---- MODULE Spec2Model ----
(***************************************************************************)
(* Model of pytorch_eo/tasks/segmentation/ImageSegmentation.py.            *)
(*                                                                         *)
(* ImageSegmentation is a task adapter: its constructor resolves default   *)
(* arguments and hands them to BaseTask, compute_loss / compute_metrics    *)
(* forward (y_hat, y['mask']) to the configured functions, and predict     *)
(* runs the model in evaluation mode without gradient recording.           *)
(*                                                                         *)
(* Python objects with identity (lists, dictionaries, loss modules) live   *)
(* in `heap`, addressed by reference; a task holds references.             *)
(*                                                                         *)
(* Two specifications share the state:                                     *)
(*   SpecInit : construction of two tasks, followed by changes the caller  *)
(*              makes to the objects a task holds;                         *)
(*   Spec     : the three methods on one task, whose initial state is any  *)
(*              state the constructor can leave.                           *)
(***************************************************************************)
EXTENDS Integers, Sequences, FiniteSets, TLC

VARIABLES
    heap,       \* reference -> object
    tasks,      \* task id -> task record (the fields BaseTask stores)
    ctor_args,  \* task id -> the arguments its constructor was called with
    nmut,       \* number of caller mutations made so far
    grad,       \* torch's global gradient-recording switch
    grad0,      \* the switch as it was when the running / last method was entered
    op,         \* the operation that acted last
    arg,        \* the arguments of the running / last method call
    y,          \* the caller's target dictionary, as it is after the call
    batch,      \* the caller's batch dictionary, as it is during / after predict
    pc,         \* position inside predict ("idle" outside)
    self,       \* the task predict is running on
    prev,       \* grad mode saved by the no_grad context manager
    x,          \* predict's local: the filtered inputs
    y_hat,      \* predict's local: the model's output
    out,        \* predict's local: the value of the return expression
    exc,        \* exception propagating out of predict's with-block
    trace,      \* steps predict has taken in the running / last call
    calls,      \* function invocations made by the running / last method call
    ret         \* outcome of the last method call

vars == <<heap, tasks, ctor_args, nmut, grad, grad0, op, arg, y, batch, pc, self, prev,
          x, y_hat, out, exc, trace, calls, ret>>

----------------------------------------------------------------------------
(* Bounds *)

MaxVal == 1
MaxMutations == 1

----------------------------------------------------------------------------
(* Values *)

None == "None"
TaskIds == {"a", "b"}
Keys == {"image", "mask", "aux"}
TargetKeys == {"mask", "label"}
TensorVals == 0 .. MaxVal
Logits == (0 - MaxVal) .. MaxVal
Models == {"unet", "fusion"}
Device == "cuda"

Abs(n) == IF n < 0 THEN 0 - n ELSE n
Max(a, b) == IF a < b THEN b ELSE a

\* Dictionaries with tensor values: functions from a subset of the keys.
Dicts(KS, VS) == UNION {[D -> VS] : D \in SUBSET KS}
\* Values of the entries the methods pass over or hand on untouched: two differing ones.
PixelVals == {0, MaxVal}
Targets == {d \in Dicts(TargetKeys, TensorVals) :
               "label" \in DOMAIN d => d["label"] \in PixelVals}
Tensor(v, dev) == [v |-> v, dev |-> dev]
Batches == Dicts(Keys, {Tensor(v, "cpu") : v \in PixelVals})

----------------------------------------------------------------------------
(* Heap objects *)

Free == [kind |-> "free"]
ListObj(items) == [kind |-> "list", items |-> items]
DictObj(items) == [kind |-> "dict", items |-> items]
LossObj(fn) == [kind |-> "loss", fn |-> fn]

\* The default lists of the signature are built once, when the def statement
\* is executed; an omitted argument is bound to that one object.
DefaultInputs == "default_inputs"
DefaultOutputs == "default_outputs"

\* Objects the caller owns and may pass in.
UserHparams == "user_hparams"
UserLoss == "user_loss"
UserMetricsEmpty == "user_metrics_0"
UserMetrics == "user_metrics_2"
UserInputs == "user_inputs"
UserOutputs == "user_outputs"

\* References handed out by object creation inside the constructor.
NewRefs == {"new_1", "new_2", "new_3", "new_4", "new_5", "new_6"}
RefOrder == <<"new_1", "new_2", "new_3", "new_4", "new_5", "new_6">>

Refs == {DefaultInputs, DefaultOutputs, UserHparams, UserLoss, UserMetricsEmpty,
         UserMetrics, UserInputs, UserOutputs} \cup NewRefs

InitHeap ==
    [r \in Refs |->
        CASE r = DefaultInputs -> ListObj(<<"image">>)
          [] r = DefaultOutputs -> ListObj(<<"mask">>)
          [] r = UserHparams -> DictObj(<< <<"optimizer", "SGD">> >>)
          [] r = UserLoss -> LossObj("l1")
          [] r = UserMetricsEmpty -> DictObj(<< >>)
          [] r = UserMetrics -> DictObj(<< <<"acc", "accuracy">>, <<"jaccard", "iou">> >>)
          [] r = UserInputs -> ListObj(<<"image", "aux">>)
          [] r = UserOutputs -> ListObj(<<"label">>)
          [] OTHER -> Free]

\* Creating an object yields a reference no live object has.
NewRef(h) == RefOrder[CHOOSE i \in 1 .. Len(RefOrder) :
                 /\ h[RefOrder[i]] = Free
                 /\ \A j \in 1 .. (i - 1) : h[RefOrder[j]] # Free]
Alloc(h, obj) == [h |-> [h EXCEPT ![NewRef(h)] = obj], ref |-> NewRef(h)]

----------------------------------------------------------------------------
(* Functions of the tensor framework and the metrics package.  They are    *)
(* computed on scalars, in hundredths.                                     *)

\* torch.sigmoid, as the rational approximation 1/2 + x / (2 (1 + |x|)).
Sigmoid(v) == IF v >= 0 THEN 50 + ((50 * v) \div (1 + v))
                        ELSE 50 - ((50 * (0 - v)) \div (1 - v))

\* torch.nn.BCEWithLogitsLoss: max(x, 0) - x z + log(1 + exp(-|x|)).
BCEWithLogitsLoss(a, b) == (100 * Max(a, 0)) - (100 * a * b) + (69 \div (1 + Abs(a)))

L1Loss(a, b) == 100 * Abs(a - b)

Threshold(a) == IF Sigmoid(a) > 50 THEN 1 ELSE 0
Positive(b) == IF b > 0 THEN 1 ELSE 0

\* pytorch_eo.metrics.segmentation.iou: intersection over union of the
\* thresholded prediction and the mask.
iou(a, b) ==
    LET p == Threshold(a)
        t == Positive(b)
        inter == p * t
        union == p + t - inter
    IN  IF union = 0 THEN 0 ELSE (100 * inter) \div union

accuracy(a, b) == IF Threshold(a) = Positive(b) THEN 100 ELSE 0

\* Calling the function object named fn with (a, b).
Apply(fn, a, b) ==
    CASE fn = "bce" -> BCEWithLogitsLoss(a, b)
      [] fn = "l1" -> L1Loss(a, b)
      [] fn = "iou" -> iou(a, b)
      [] fn = "accuracy" -> accuracy(a, b)

\* The wrapped model, called on the dictionary of inputs.  "unet" reads
\* x['image'] and fails without it; "fusion" adds up whatever it is given.
RECURSIVE SumVals(_, _)
SumVals(d, ks) ==
    IF ks = {} THEN 0
    ELSE LET k == CHOOSE k \in ks : TRUE
         IN  d[k].v + SumVals(d, ks \ {k})

ModelApply(m, d) ==
    CASE m = "unet" ->
            IF "image" \in DOMAIN d
            THEN [ok |-> TRUE, v |-> (2 * d["image"].v) - 1]
            ELSE [ok |-> FALSE, exc |-> "KeyError"]
      [] m = "fusion" -> [ok |-> TRUE, v |-> SumVals(d, DOMAIN d) - 1]

----------------------------------------------------------------------------
(* Construction *)

NoTask == [live |-> FALSE]
NoArgs == [given |-> FALSE]
NoOp == [name |-> "none", task |-> None]

\* BaseTask.__init__: keeps what it is handed; a new module is in training mode.
BaseTask_init(model, hparams, inputs, outputs, loss_fn, metrics) ==
    [live |-> TRUE, model |-> model, hparams |-> hparams, inputs |-> inputs,
     outputs |-> outputs, loss_fn |-> loss_fn, metrics |-> metrics,
     training |-> TRUE]

\* loss_fn = torch.nn.BCEWithLogitsLoss() if loss_fn is None else loss_fn
DefaultLoss(h, loss_fn) ==
    IF loss_fn = None THEN Alloc(h, LossObj("bce")) ELSE [h |-> h, ref |-> loss_fn]

\* Faulty variant: the caller's hparams are ignored.
DefaultHparams_always(h, hparams) ==
    Alloc(h, DictObj(<< <<"optimizer", "Adam">> >>))

\* hparams = {'optimizer': 'Adam'} if hparams is None else hparams
DefaultHparams(h, hparams) ==
    IF hparams = None
    THEN Alloc(h, DictObj(<< <<"optimizer", "Adam">> >>))
    ELSE [h |-> h, ref |-> hparams]

\* metrics = {'iou': iou} if metrics is None else metrics
DefaultMetrics(h, metrics) ==
    IF metrics = None
    THEN Alloc(h, DictObj(<< <<"iou", "iou">> >>))
    ELSE [h |-> h, ref |-> metrics]

\* ImageSegmentation.__init__: the heap and the task it leaves.
ImageSegmentation_init(h, model, hparams, inputs, outputs, loss_fn, metrics) ==
    LET l == DefaultLoss(h, loss_fn)
        p == DefaultHparams(l.h, hparams)
        m == DefaultMetrics(p.h, metrics)
    IN  [heap |-> m.h,
         task |-> BaseTask_init(model, p.ref, inputs, outputs, l.ref, m.ref)]

\* What a caller may pass.  An omitted inputs / outputs argument is bound to
\* the signature's default object.
HparamsArgs == {None, UserHparams}
LossArgs == {None, UserLoss}
MetricsArgs == {None, UserMetricsEmpty, UserMetrics}
InputsArgs == {DefaultInputs, UserInputs}
OutputsArgs == {DefaultOutputs, UserOutputs}

CtorArgs ==
    [model : Models, hparams : HparamsArgs, inputs : InputsArgs,
     outputs : OutputsArgs, loss_fn : LossArgs, metrics : MetricsArgs,
     given : {TRUE}]

Constructed(h, a) ==
    ImageSegmentation_init(h, a.model, a.hparams, a.inputs, a.outputs,
                           a.loss_fn, a.metrics)

MethodIdle ==
    /\ arg = [name |-> "none"]
    /\ y = << >>
    /\ batch = << >>
    /\ pc = "idle"
    /\ self = None
    /\ prev = TRUE
    /\ x = << >>
    /\ y_hat = 0
    /\ out = 0
    /\ exc = None
    /\ trace = << >>
    /\ calls = << >>
    /\ ret = [kind |-> "none"]

MethodVars == <<arg, y, batch, pc, self, prev, x, y_hat, out, exc, trace, calls, ret>>

\* A method is entered: the locals of an earlier predict call are gone.
ForgetPredict ==
    /\ batch' = << >>
    /\ self' = None
    /\ prev' = TRUE
    /\ x' = << >>
    /\ y_hat' = 0
    /\ out' = 0
    /\ exc' = None
    /\ trace' = << >>

\* task = ImageSegmentation(model, ...)
Construct(t) ==
    /\ ~tasks[t].live
    /\ \E a \in CtorArgs :
          LET r == Constructed(heap, a)
          IN  /\ heap' = r.heap
              /\ tasks' = [tasks EXCEPT ![t] = r.task]
              /\ ctor_args' = [ctor_args EXCEPT ![t] = a]
    /\ op' = [name |-> "init", task |-> t]
    /\ UNCHANGED <<nmut, grad, grad0, MethodVars>>

\* The caller changes an object a task holds in place:
\* task.inputs.append(..), task.hparams[..] = .., task.metrics[..] = ..
Fields == {"hparams", "metrics", "inputs", "outputs"}
Extended(obj) ==
    IF obj.kind = "list"
    THEN ListObj(Append(obj.items, "extra"))
    ELSE DictObj(Append(obj.items, <<"extra", "extra">>))

Mutate(t, f) ==
    /\ tasks[t].live
    /\ nmut < MaxMutations
    /\ nmut' = nmut + 1
    /\ heap' = [heap EXCEPT ![tasks[t][f]] = Extended(@)]
    /\ op' = [name |-> "mutate", task |-> t]
    /\ UNCHANGED <<tasks, ctor_args, grad, grad0, MethodVars>>

\* What a task sees through its references.
View(t) ==
    [hparams |-> heap[tasks[t].hparams], metrics |-> heap[tasks[t].metrics],
     inputs |-> heap[tasks[t].inputs], outputs |-> heap[tasks[t].outputs],
     loss_fn |-> heap[tasks[t].loss_fn]]

InitCtor ==
    /\ heap = InitHeap
    /\ tasks = [t \in TaskIds |-> NoTask]
    /\ ctor_args = [t \in TaskIds |-> NoArgs]
    /\ nmut = 0
    /\ grad = TRUE
    /\ grad0 = TRUE
    /\ op = NoOp
    /\ MethodIdle

NextCtor ==
    \/ \E t \in TaskIds : Construct(t)
    \/ \E t \in TaskIds, f \in Fields : Mutate(t, f)

SpecInit == InitCtor /\ [][NextCtor]_vars

----------------------------------------------------------------------------
(* Method outcomes *)

Value(v) == [kind |-> "value", v |-> v]
DictValue(items) == [kind |-> "dict", items |-> items]
Raise(e) == [kind |-> "raise", exc |-> e]
Call(fn, a, b) == [fn |-> fn, a |-> a, b |-> b]

----------------------------------------------------------------------------
(* compute_loss *)

\* Faulty variant: the arguments in the wrong order, self.loss_fn(y['mask'], y_hat).
compute_loss_swapped(task, h, yh, yy) ==
    IF "mask" \notin DOMAIN yy
    THEN [ret |-> Raise("KeyError"), calls |-> << >>]
    ELSE LET fn == h[task.loss_fn].fn
         IN  [ret |-> Value(Apply(fn, yy["mask"], yh)),
              calls |-> <<Call(fn, yy["mask"], yh)>>]

\* Faulty variant: the target read under the task's first output name,
\* self.loss_fn(y_hat, y[self.outputs[0]]).
compute_loss_outputs(task, h, yh, yy) ==
    LET key == h[task.outputs].items[1]
        fn == h[task.loss_fn].fn
    IN  IF key \notin DOMAIN yy
        THEN [ret |-> Raise("KeyError"), calls |-> << >>]
        ELSE [ret |-> Value(Apply(fn, yh, yy[key])),
              calls |-> <<Call(fn, yh, yy[key])>>]

\* return self.loss_fn(y_hat, y['mask'])
\* The subscript is evaluated before the call is made.
compute_loss(task, h, yh, yy) ==
    IF "mask" \notin DOMAIN yy
    THEN [ret |-> Raise("KeyError"), calls |-> << >>]
    ELSE LET fn == h[task.loss_fn].fn
         IN  [ret |-> Value(Apply(fn, yh, yy["mask"])),
              calls |-> <<Call(fn, yh, yy["mask"])>>]

ComputeLoss(t) ==
    /\ pc = "idle"
    /\ tasks[t].live
    /\ \E yh \in Logits, yy \in Targets :
          LET r == compute_loss(tasks[t], heap, yh, yy)
          IN  /\ arg' = [name |-> "compute_loss", y_hat |-> yh, y |-> yy]
              /\ y' = yy
              /\ ret' = r.ret
              /\ calls' = r.calls
    /\ op' = [name |-> "compute_loss", task |-> t]
    /\ grad0' = grad
    /\ ForgetPredict
    /\ UNCHANGED <<heap, tasks, ctor_args, nmut, grad, pc>>

----------------------------------------------------------------------------
(* compute_metrics *)

\* {metric_name: metric(y_hat, y['mask']) for metric_name, metric in self.metrics.items()}
\* The comprehension walks the items in order; `done` and `calls` are the
\* entries built and the invocations made so far.
RECURSIVE MetricsLoop(_, _, _, _, _)
MetricsLoop(items, yh, yy, done, made) ==
    IF items = << >>
    THEN [ret |-> DictValue(done), calls |-> made]
    ELSE IF "mask" \notin DOMAIN yy
    THEN [ret |-> Raise("KeyError"), calls |-> made]
    ELSE LET name == Head(items)[1]
             fn == Head(items)[2]
         IN  MetricsLoop(Tail(items), yh, yy,
                         Append(done, <<name, Apply(fn, yh, yy["mask"])>>),
                         Append(made, Call(fn, yh, yy["mask"])))

\* Faulty variant: only the first metric is computed.
compute_metrics_first(task, h, yh, yy) ==
    LET items == h[task.metrics].items
    IN  MetricsLoop(IF items = << >> THEN items ELSE <<Head(items)>>,
                    yh, yy, << >>, << >>)

compute_metrics(task, h, yh, yy) ==
    MetricsLoop(h[task.metrics].items, yh, yy, << >>, << >>)

\* Faulty variant: compute_metrics switches the task to evaluation mode first.
ComputeMetrics_eval(t) ==
    /\ pc = "idle"
    /\ tasks[t].live
    /\ \E yh \in Logits, yy \in Targets :
          LET r == compute_metrics(tasks[t], heap, yh, yy)
          IN  /\ arg' = [name |-> "compute_metrics", y_hat |-> yh, y |-> yy]
              /\ y' = yy
              /\ ret' = r.ret
              /\ calls' = r.calls
    /\ tasks' = [tasks EXCEPT ![t].training = FALSE]
    /\ op' = [name |-> "compute_metrics", task |-> t]
    /\ grad0' = grad
    /\ ForgetPredict
    /\ UNCHANGED <<heap, ctor_args, nmut, grad, pc>>

ComputeMetrics(t) ==
    /\ pc = "idle"
    /\ tasks[t].live
    /\ \E yh \in Logits, yy \in Targets :
          LET r == compute_metrics(tasks[t], heap, yh, yy)
          IN  /\ arg' = [name |-> "compute_metrics", y_hat |-> yh, y |-> yy]
              /\ y' = yy
              /\ ret' = r.ret
              /\ calls' = r.calls
    /\ op' = [name |-> "compute_metrics", task |-> t]
    /\ grad0' = grad
    /\ ForgetPredict
    /\ UNCHANGED <<heap, tasks, ctor_args, nmut, grad, pc>>

----------------------------------------------------------------------------
(* predict, statement by statement *)

\* v.to(self.device)
To(v, dev) == Tensor(v.v, dev)

\* Faulty variant: the comprehension without its condition.
FilterInputs_all(b, inputs) == [k \in DOMAIN b |-> To(b[k], Device)]

\* {k: v.to(self.device) for k, v in batch.items() if k in self.inputs}
Range(seq) == {seq[i] : i \in 1 .. Len(seq)}
FilterInputs(b, inputs) ==
    [k \in {k \in DOMAIN b : k \in Range(inputs)} |-> To(b[k], Device)]

\* entry, and self.eval()
PredictEval(t) ==
    /\ pc = "idle"
    /\ tasks[t].live
    /\ \E b \in Batches :
          /\ arg' = [name |-> "predict", batch |-> b]
          /\ batch' = b
    /\ self' = t
    /\ tasks' = [tasks EXCEPT ![t].training = FALSE]
    /\ op' = [name |-> "predict", task |-> t]
    /\ trace' = <<"eval">>
    /\ calls' = << >>
    /\ ret' = [kind |-> "none"]
    /\ x' = << >>
    /\ y_hat' = 0
    /\ out' = 0
    /\ exc' = None
    /\ y' = << >>
    /\ prev' = TRUE
    /\ pc' = "no_grad"
    /\ grad0' = grad
    /\ UNCHANGED <<heap, ctor_args, nmut, grad>>

\* Faulty variant: the with-block does not disable gradient recording.
PredictNoGrad_enabled ==
    /\ pc = "no_grad"
    /\ prev' = grad
    /\ grad' = grad
    /\ trace' = Append(trace, "no_grad")
    /\ pc' = "inputs"
    /\ UNCHANGED <<heap, tasks, ctor_args, nmut, grad0, op, arg, y, batch, self,
                   x, y_hat, out, exc, calls, ret>>

\* with torch.no_grad():   (enter)
PredictNoGrad ==
    /\ pc = "no_grad"
    /\ prev' = grad
    /\ grad' = FALSE
    /\ trace' = Append(trace, "no_grad")
    /\ pc' = "inputs"
    /\ UNCHANGED <<heap, tasks, ctor_args, nmut, grad0, op, arg, y, batch, self,
                   x, y_hat, out, exc, calls, ret>>

\* x = {...}
PredictInputs ==
    /\ pc = "inputs"
    /\ x' = FilterInputs(batch, heap[tasks[self].inputs].items)
    /\ trace' = Append(trace, "to")
    /\ pc' = "forward"
    /\ UNCHANGED <<heap, tasks, ctor_args, nmut, grad, grad0, op, arg, y, batch,
                   self, prev, y_hat, out, exc, calls, ret>>

\* y_hat = self(x)
PredictForward ==
    /\ pc = "forward"
    /\ LET r == ModelApply(tasks[self].model, x)
       IN  /\ calls' = Append(calls, [fn |-> tasks[self].model, x |-> x,
                                      training |-> tasks[self].training,
                                      grad |-> grad])
           /\ IF r.ok
              THEN /\ y_hat' = r.v
                   /\ exc' = exc
                   /\ pc' = "sigmoid"
              ELSE /\ y_hat' = y_hat
                   /\ exc' = r.exc
                   /\ pc' = "exit"
    /\ trace' = Append(trace, "model")
    /\ UNCHANGED <<heap, tasks, ctor_args, nmut, grad, grad0, op, arg, y, batch,
                   self, prev, x, out, ret>>

\* Faulty variant: the logits are returned as they are.
PredictSigmoid_logits ==
    /\ pc = "sigmoid"
    /\ out' = y_hat
    /\ trace' = Append(trace, "sigmoid")
    /\ pc' = "exit"
    /\ UNCHANGED <<heap, tasks, ctor_args, nmut, grad, grad0, op, arg, y, batch,
                   self, prev, x, y_hat, exc, calls, ret>>

\* return torch.sigmoid(y_hat)   (the value, before the with-block is left)
PredictSigmoid ==
    /\ pc = "sigmoid"
    /\ out' = Sigmoid(y_hat)
    /\ trace' = Append(trace, "sigmoid")
    /\ pc' = "exit"
    /\ UNCHANGED <<heap, tasks, ctor_args, nmut, grad, grad0, op, arg, y, batch,
                   self, prev, x, y_hat, exc, calls, ret>>

\* Faulty variant: gradient recording is switched off and never restored.
PredictExit_norestore ==
    /\ pc = "exit"
    /\ grad' = grad
    /\ ret' = IF exc = None THEN Value(out) ELSE Raise(exc)
    /\ trace' = Append(trace, "exit")
    /\ pc' = "idle"
    /\ UNCHANGED <<heap, tasks, ctor_args, nmut, grad0, op, arg, y, batch, self,
                   prev, x, y_hat, out, exc, calls>>

\* with torch.no_grad():   (exit, on return or on an exception)
PredictExit ==
    /\ pc = "exit"
    /\ grad' = prev
    /\ ret' = IF exc = None THEN Value(out) ELSE Raise(exc)
    /\ trace' = Append(trace, "exit")
    /\ pc' = "idle"
    /\ UNCHANGED <<heap, tasks, ctor_args, nmut, grad0, op, arg, y, batch, self,
                   prev, x, y_hat, out, exc, calls>>

----------------------------------------------------------------------------
(* The surrounding program *)

\* task.train(), as the training loop calls it
Train(t) ==
    /\ pc = "idle"
    /\ tasks[t].live
    /\ ~tasks[t].training
    /\ tasks' = [tasks EXCEPT ![t].training = TRUE]
    /\ op' = [name |-> "train", task |-> t]
    /\ UNCHANGED <<heap, ctor_args, nmut, grad, grad0, MethodVars>>

\* torch.set_grad_enabled(b), by the caller
SetGradEnabled(b) ==
    /\ pc = "idle"
    /\ grad # b
    /\ grad' = b
    /\ op' = [name |-> "set_grad_enabled", task |-> None]
    /\ UNCHANGED <<heap, tasks, ctor_args, nmut, grad0, MethodVars>>

\* The constructor calls the method specification starts from: every value
\* of every argument occurs, hparams going with loss_fn and outputs with inputs.
InitArgs ==
    {a \in CtorArgs :
        /\ (a.hparams = None) <=> (a.loss_fn = None)
        /\ (a.outputs = DefaultOutputs) <=> (a.inputs = DefaultInputs)}

\* One task, in a state its constructor leaves.
Init ==
    /\ \E a \in InitArgs :
          LET r == Constructed(InitHeap, a)
          IN  /\ heap = r.heap
              /\ tasks = [t \in TaskIds |-> IF t = "a" THEN r.task ELSE NoTask]
              /\ ctor_args = [t \in TaskIds |-> IF t = "a" THEN a ELSE NoArgs]
    /\ nmut = 0
    /\ grad = TRUE
    /\ grad0 = TRUE
    /\ op = [name |-> "init", task |-> "a"]
    /\ MethodIdle

Next ==
    \/ \E t \in TaskIds : ComputeLoss(t)
    \/ \E t \in TaskIds : ComputeMetrics(t)
    \/ \E t \in TaskIds : PredictEval(t)
    \/ PredictNoGrad
    \/ PredictInputs
    \/ PredictForward
    \/ PredictSigmoid
    \/ PredictExit
    \/ \E t \in TaskIds : Train(t)
    \/ \E b \in BOOLEAN : SetGradEnabled(b)

Spec == Init /\ [][Next]_vars

----------------------------------------------------------------------------
(* Properties of the methods (checked under Spec) *)

LastTask == tasks[op.task]
LossFn == heap[LastTask.loss_fn].fn
MetricItems == heap[LastTask.metrics].items
InputKeys == Range(heap[LastTask.inputs].items)
HasMask == "mask" \in DOMAIN arg.y
Returned(name) == op.name = name /\ pc = "idle"

\* C1: when y has the key 'mask', compute_loss calls the configured loss_fn
\* exactly once, with (y_hat, y['mask']), and returns that call's result; the
\* result is a function of y_hat and y['mask'] alone.
C1_ComputeLossForwards ==
    (Returned("compute_loss") /\ HasMask) =>
        /\ calls = <<Call(LossFn, arg.y_hat, arg.y["mask"])>>
        /\ ret = Value(Apply(LossFn, arg.y_hat, arg.y["mask"]))

C1_Witness ==
    /\ Returned("compute_loss")
    /\ DOMAIN arg.y = {"mask", "label"}
    /\ arg.y["label"] # arg.y["mask"]
    /\ arg.y_hat # arg.y["mask"]
    /\ LossFn = "bce"
    /\ ret.kind = "value"

\* C2: when y has the key 'mask', compute_metrics returns a dictionary with
\* exactly the names of the configured metrics dictionary, each value being the
\* result of that name's function called once with (y_hat, y['mask']).
C2_ComputeMetricsForwards ==
    (Returned("compute_metrics") /\ HasMask) =>
        /\ ret.kind = "dict"
        /\ Len(ret.items) = Len(MetricItems)
        /\ \A i \in 1 .. Len(MetricItems) :
              ret.items[i] = <<MetricItems[i][1],
                               Apply(MetricItems[i][2], arg.y_hat, arg.y["mask"])>>
        /\ calls = [i \in 1 .. Len(MetricItems) |->
                       Call(MetricItems[i][2], arg.y_hat, arg.y["mask"])]

C2_Witness ==
    /\ Returned("compute_metrics")
    /\ HasMask
    /\ ret.kind = "dict"
    /\ Len(ret.items) = 2
    /\ ret.items[1][2] # ret.items[2][2]

\* The inputs the model is to be given: the batch entries whose key is in
\* the task's inputs, on the task's device.
ExpectedInputs ==
    [k \in (DOMAIN arg.batch) \cap InputKeys |-> Tensor(arg.batch[k].v, Device)]

\* C4: predict returns the sigmoid of the model's output for the filtered
\* batch; loss_fn, metrics and batch entries outside inputs play no part.
C4_PredictSigmoidOfModel ==
    Returned("predict") =>
        LET r == ModelApply(LastTask.model, ExpectedInputs)
        IN  r.ok => ret = Value(Sigmoid(r.v))

C4_Witness ==
    /\ Returned("predict")
    /\ ret.kind = "value"
    /\ ret.v > 50
    /\ "mask" \in DOMAIN arg.batch
    /\ LastTask.model = "fusion"

\* C5: the dictionary handed to the model has exactly the keys that are both
\* in the batch and in inputs; an inputs key missing from the batch raises
\* nothing; the caller's batch keeps its keys and values.
C5_PredictFiltersInputs ==
    op.name = "predict" =>
        /\ batch = arg.batch
        /\ (pc = "forward" => (exc = None /\ DOMAIN x = (DOMAIN arg.batch) \cap InputKeys))
        /\ \A i \in 1 .. Len(calls) :
              DOMAIN calls[i].x = (DOMAIN arg.batch) \cap InputKeys

C5_Witness ==
    /\ op.name = "predict"
    /\ Len(calls) = 1
    /\ "mask" \in DOMAIN arg.batch
    /\ "aux" \in InputKeys
    /\ "aux" \notin DOMAIN arg.batch
    /\ DOMAIN calls[1].x = {"image"}

IsPrefix(p, q) == Len(p) <= Len(q) /\ \A i \in 1 .. Len(p) : p[i] = q[i]
StepsReturn == <<"eval", "no_grad", "to", "model", "sigmoid", "exit">>
StepsRaise == <<"eval", "no_grad", "to", "model", "exit">>

\* C6: predict switches to evaluation mode, then disables gradient recording,
\* then moves the inputs to the device, then invokes the model once, then
\* applies sigmoid; the model never runs in training mode or with gradient
\* recording enabled.
C6_PredictOrder ==
    op.name = "predict" =>
        /\ IsPrefix(trace, StepsReturn) \/ IsPrefix(trace, StepsRaise)
        /\ pc = "idle" => trace \in {StepsReturn, StepsRaise}
        /\ ret.kind = "value" => trace = StepsReturn
        /\ Len(calls) <= 1
        /\ pc = "idle" => Len(calls) = 1
        /\ \A i \in 1 .. Len(calls) :
              /\ ~calls[i].training
              /\ ~calls[i].grad
              /\ \A k \in DOMAIN calls[i].x : calls[i].x[k].dev = Device

C6_Witness ==
    /\ Returned("predict")
    /\ trace = StepsReturn
    /\ grad0
    /\ DOMAIN calls[1].x = {"image", "aux"}

\* C7: compute_loss and compute_metrics change nothing of the task (mode,
\* loss_fn, metrics, inputs, hparams), nor the target dictionary passed in.
C7_ComputeFrame ==
    [][op'.name \in {"compute_loss", "compute_metrics"} =>
          /\ tasks' = tasks
          /\ heap' = heap
          /\ grad' = grad
          /\ y' = arg'.y]_vars

C7_Witness ==
    /\ Returned("compute_metrics")
    /\ ~LastTask.training
    /\ Len(calls) = 2
    /\ DOMAIN y = {"mask", "label"}

\* C8: when predict is left, by return or by an error raised in the model,
\* gradient recording is as it was on entry and the task is in evaluation
\* mode; only train() by the surrounding program puts a task back in
\* training mode.
C8_PredictLeavesEval ==
    /\ [](Returned("predict") => (grad = grad0 /\ ~LastTask.training))
    /\ [][\A t \in TaskIds :
            (tasks[t].live /\ ~tasks[t].training /\ tasks'[t].training)
                => op'.name = "train"]_vars

C8_Witness ==
    /\ Returned("predict")
    /\ ret.kind = "raise"
    /\ grad0
    /\ grad
    /\ ~LastTask.training

\* C9, as claimed: without the key 'mask' in y, compute_loss and compute_metrics
\* end in a key-lookup error, having invoked no function.
C9_MissingMaskRaises ==
    (op.name \in {"compute_loss", "compute_metrics"} /\ pc = "idle" /\ ~HasMask) =>
        /\ ret = Raise("KeyError")
        /\ calls = << >>

\* C9, amended: without the key 'mask' in y, compute_loss ends in a key-lookup
\* error, and so does compute_metrics when the metrics dictionary has an entry;
\* with an empty metrics dictionary compute_metrics returns the empty
\* dictionary.  No function is invoked in either case, whatever outputs is.
C9_MissingMaskRaisesUnlessNoMetrics ==
    /\ (Returned("compute_loss") /\ ~HasMask) =>
          (ret = Raise("KeyError") /\ calls = << >>)
    /\ (Returned("compute_metrics") /\ ~HasMask) =>
          /\ calls = << >>
          /\ ret = IF MetricItems = << >> THEN DictValue(<< >>) ELSE Raise("KeyError")

C9_Witness ==
    /\ Returned("compute_metrics")
    /\ DOMAIN arg.y = {"label"}
    /\ LastTask.outputs = UserOutputs
    /\ ret = Raise("KeyError")

----------------------------------------------------------------------------
(* Properties of construction (checked under SpecInit) *)

DefaultLossObj == LossObj("bce")
DefaultHparamsObj == DictObj(<< <<"optimizer", "Adam">> >>)
DefaultMetricsObj == DictObj(<< <<"iou", "iou">> >>)

Resolved(given, got, default) ==
    IF given = None THEN got \in NewRefs /\ heap[got] = default ELSE got = given

\* C3: the constructor resolves loss_fn, hparams and metrics each on its own:
\* None gives the default, anything else is handed on as it is; model, inputs
\* and outputs are handed on unchanged.
C3_DefaultsResolved ==
    op.name = "init" =>
        LET a == ctor_args[op.task]
        IN  /\ LastTask.model = a.model
            /\ LastTask.inputs = a.inputs
            /\ LastTask.outputs = a.outputs
            /\ Resolved(a.loss_fn, LastTask.loss_fn, DefaultLossObj)
            /\ Resolved(a.hparams, LastTask.hparams, DefaultHparamsObj)
            /\ Resolved(a.metrics, LastTask.metrics, DefaultMetricsObj)

C3_Witness ==
    /\ op.name = "init"
    /\ ctor_args[op.task].loss_fn = None
    /\ ctor_args[op.task].hparams = UserHparams
    /\ ctor_args[op.task].metrics = None
    /\ ctor_args[op.task].inputs = UserInputs
    /\ LastTask.hparams = UserHparams
    /\ heap[LastTask.metrics] = DefaultMetricsObj

AllDefaults(t) ==
    /\ tasks[t].live
    /\ ctor_args[t].hparams = None
    /\ ctor_args[t].loss_fn = None
    /\ ctor_args[t].metrics = None
    /\ ctor_args[t].inputs = DefaultInputs
    /\ ctor_args[t].outputs = DefaultOutputs

\* C10: two tasks constructed with all defaults share no default state: a
\* change made to the hparams, metrics, inputs or outputs of one of them does
\* not change what the other one holds.
C10_DefaultsNotShared ==
    [][\A t \in TaskIds, u \in TaskIds :
          (t # u /\ AllDefaults(t) /\ AllDefaults(u)
               /\ op'.name = "mutate" /\ op'.task = u)
            => View(t)' = View(t)]_vars

====
